---- MODULE Spec2Model ----
(***************************************************************************)
(* Model of the Wayland window store (WindowStore, InternalWindow, Window, *)
(* MonitorList in src/platform/linux/wayland/window.rs) and of the X11     *)
(* error slot (XConnection in src/platform_impl/linux/x11/xdisplay.rs).    *)
(***************************************************************************)
EXTENDS Integers, Sequences, FiniteSets, TLC

\* ------------------------------------------------------------------ bounds
MaxWindows == 2      \* window handles constructed in one behaviour
MaxDim == 1          \* widths a size may take
MaxOutputs == 2      \* wl_output objects known to the OutputMgr
MaxFactor == 2       \* largest scale factor an output reports
MaxMonitors == 2     \* entries a MonitorList may hold
MaxErrors == 3       \* X errors raised in one behaviour
MaxThreads == 2      \* threads sharing the XConnection
MaxSeats == 2        \* seats announced to the store
MaxEvents == 3       \* native events and wakeups sent to the loop in one behaviour

\* ------------------------------------------------------- program constants
DefaultWidth == 800
DefaultHeight == 600
DpiAwareVersion == 3
InitialDpi == 1

\* ----------------------------------------------------------------- values
None == <<>>
Some(x) == <<x>>
IsSome(o) == o /= None
Unwrap(o) == o[1]
Ok == <<"Ok">>
Err(e) == <<"Err", e>>

Handles == 1 .. MaxWindows
Surfaces == 1 .. MaxWindows
Outputs == 1 .. MaxOutputs
Factors == 1 .. MaxFactor
Sizes == (1 .. MaxDim) \X {1}
Versions == {DpiAwareVersion - 1, DpiAwareVersion}
Threads == 1 .. MaxThreads

VARIABLES
    windows,             \* WindowStore.windows: Vec<InternalWindow>
    handle,              \* the Window handles: state, surface, kill_switch, frame
    size,                \* the Arc<Mutex<(u32, u32)>> cell of each handle
    need_frame_refresh,  \* the Arc<Mutex<bool>> cell of each handle
    kill_switch,         \* the Arc<Mutex<bool>> kill switch of each handle
    monitors,            \* MonitorList.monitors of each handle
    cleanup_needed,      \* EventsLoop.cleanup_needed
    factor,              \* scale factor the OutputMgr reports for each output
    version,             \* version of the wl_surface objects
    buffer_scale,        \* buffer scale requested for each surface
    destroyed,           \* number of wl_surface.destroy requests per surface
    last,                \* what the last operation returned, when it returns something
    latest_error,        \* XConnection.latest_error
    xpc,                 \* position of each thread inside check_errors
    xerror,              \* the local `error` of each thread in check_errors
    xseen,               \* the slot as it was when the thread took the lock
    raised,              \* number of errors the X error handler has stored
    returned,            \* how often each error was returned as Err
    lost,                \* errors overwritten or ignored before any check
    el_alive,            \* the EventsLoop exists
    el_mode,             \* "idle", or the entry point the loop thread is in
    el_queue,            \* events waiting for dispatch
    el_left,             \* events of the current pass not yet delivered
    el_calls,            \* callback invocations of the current call
    el_woken,            \* a wakeup is pending
    el_budget,           \* native events and wakeups the environment may still send
    held,                \* the thread that holds each mutex
    fe_pc,               \* where the loop thread is in a drain pass
    fe_i,                \* the record the drain pass is at
    fe_taken,            \* the needs-frame-refresh value the pass took for it
    app_pc               \* where the thread that owns the Window is in a call

wlvars == <<windows, handle, size, need_frame_refresh, kill_switch, monitors,
            cleanup_needed, factor, version, buffer_scale, destroyed>>
xvars == <<latest_error, xpc, xerror, xseen, raised, returned, lost>>
elvars == <<el_alive, el_mode, el_queue, el_left, el_calls, el_woken, el_budget>>
lkvars == <<held, fe_pc, fe_i, fe_taken, app_pc>>
vars == <<wlvars, last, xvars, elvars, lkvars>>

make_wid(surface) == [WindowId |-> surface]

\* ------------------------------------------------------------ the store
InternalWindow(h, surface, ks) ==
    [ surface |-> surface,
      newsize |-> None,
      size |-> h,
      need_refresh |-> FALSE,
      need_frame_refresh |-> h,
      closed |-> FALSE,
      kill_switch |-> ks,
      frame |-> h,
      current_dpi |-> InitialDpi,
      new_dpi |-> None ]

NoHandle == [st |-> "none", surface |-> 0, kill_switch |-> FALSE, frame |-> FALSE]

Created == {h \in Handles : handle[h].st /= "none"}
UsedSurfaces == {handle[h].surface : h \in Created}

WlInit ==
    /\ windows = <<>>
    /\ handle = [h \in Handles |-> NoHandle]
    /\ size = [h \in Handles |-> <<0, 0>>]
    /\ need_frame_refresh = [h \in Handles |-> FALSE]
    /\ kill_switch = [h \in Handles |-> FALSE]
    /\ monitors = [h \in Handles |-> <<>>]
    /\ cleanup_needed = FALSE
    /\ factor = [o \in Outputs |-> InitialDpi]
    /\ version \in Versions
    /\ buffer_scale = [s \in Surfaces |-> InitialDpi]
    /\ destroyed = [s \in Surfaces |-> 0]

XInit ==
    /\ latest_error = None
    /\ xpc = [t \in Threads |-> "idle"]
    /\ xerror = [t \in Threads |-> None]
    /\ xseen = [t \in Threads |-> None]
    /\ raised = 0
    /\ returned = [e \in 1 .. MaxErrors |-> 0]
    /\ lost = {}

\* EventsLoop::new
ElInit ==
    /\ el_alive = TRUE
    /\ el_mode = "idle"
    /\ el_queue = <<>>
    /\ el_left = 0
    /\ el_calls = 0
    /\ el_woken = FALSE
    /\ el_budget = MaxEvents

\* the mutexes: Arc<Mutex<WindowStore>>, and the frame, size and
\* need_frame_refresh cells a record shares with its handle
StoreLock == <<"store", 0>>
FrameLock(h) == <<"frame", h>>
SizeLock(h) == <<"size", h>>
RefreshLock(h) == <<"need_frame_refresh", h>>
Locks == {StoreLock} \cup ({"frame", "size", "need_frame_refresh"} \X Handles)

LkInit ==
    /\ held = [l \in Locks |-> "free"]
    /\ fe_pc = "idle"
    /\ fe_i = 0
    /\ fe_taken = FALSE
    /\ app_pc = "idle"

\* `last` after an operation that returns nothing
NoOp == [op |-> "none", ret |-> None]

Init ==
    /\ WlInit
    /\ XInit
    /\ ElInit
    /\ LkInit
    /\ last = NoOp

\* ------------------------------------------------- Window constructors
RawWindowParts(surface, width, height) ==
    [surface |-> surface, width |-> width, height |-> height]

\* Window::get_raw_parts
get_raw_parts(h) ==
    RawWindowParts(handle[h].surface, size[h][1], size[h][2])

Register(h, surface, sz, ks, frame, nfr) ==
    /\ windows' = Append(windows,
                     InternalWindow(h, surface, IF ks THEN Some(h) ELSE None))
    /\ handle' = [handle EXCEPT ![h] = [st |-> "live", surface |-> surface,
                                        kill_switch |-> ks, frame |-> frame]]
    /\ size' = [size EXCEPT ![h] = sz]
    /\ need_frame_refresh' = [need_frame_refresh EXCEPT ![h] = nfr]
    /\ kill_switch' = [kill_switch EXCEPT ![h] = FALSE]
    /\ monitors' = [monitors EXCEPT ![h] = <<>>]

NextHandle == Cardinality(Created) + 1
FreshSurface == Cardinality(UsedSurfaces) + 1

\* Window::new: attributes.dimensions is Some(dims) or None
New(dims) ==
    /\ NextHandle \in Handles
    /\ LET sz == IF IsSome(dims) THEN Unwrap(dims)
                 ELSE <<DefaultWidth, DefaultHeight>>
       IN Register(NextHandle, FreshSurface, sz, TRUE, TRUE, TRUE)
    /\ last' = NoOp
    /\ UNCHANGED <<cleanup_needed, factor, version, buffer_scale, destroyed, xvars, elvars, lkvars>>

\* Window::new_from_raw_parts
new_from_raw_parts(rwp) ==
    /\ NextHandle \in Handles
    /\ Register(NextHandle, rwp.surface, <<rwp.width, rwp.height>>,
                FALSE, FALSE, FALSE)
    /\ last' = NoOp
    /\ UNCHANGED <<cleanup_needed, factor, version, buffer_scale, destroyed, xvars, elvars, lkvars>>

\* the raw parts of a window that is still alive
NewFromLive ==
    \E h \in Created :
        /\ handle[h].st = "live"
        /\ destroyed[handle[h].surface] = 0
        /\ new_from_raw_parts(get_raw_parts(h))

\* the raw parts of a surface made outside the store
NewFromForeign ==
    \E sz \in Sizes :
        new_from_raw_parts(RawWindowParts(FreshSurface, sz[1], sz[2]))

\* ------------------------------------------------------ impl Drop for Window
DropWrites_flag_first == <<"cleanup_needed", "kill_switch">>

\* the two flags drop() sets, in the order of its statements: ks.0, the kill
\* switch of the window, and ks.1, the cleanup_needed flag of the loop
DropWrites == <<"kill_switch", "cleanup_needed">>

\* `*(ks.N.lock().unwrap()) = true` for one of the two
DropWrite(h, cell) ==
    IF cell = "kill_switch"
    THEN /\ kill_switch' = [kill_switch EXCEPT ![h] = TRUE]
         /\ UNCHANGED cleanup_needed
    ELSE /\ cleanup_needed' = TRUE
         /\ UNCHANGED kill_switch

\* *(ks.0.lock().unwrap()) = true
DropKillSwitch(h) ==
    /\ handle[h].st = "live"
    /\ handle[h].kill_switch
    /\ DropWrite(h, DropWrites[1])
    /\ handle' = [handle EXCEPT ![h].st = "dropping"]
    /\ last' = NoOp
    /\ UNCHANGED <<windows, size, need_frame_refresh, monitors,
                   factor, version, buffer_scale, destroyed, xvars, elvars, lkvars>>

\* *(ks.1.lock().unwrap()) = true, then the fields of the handle are dropped
DropCleanupNeeded(h) ==
    /\ handle[h].st = "dropping"
    /\ DropWrite(h, DropWrites[2])
    /\ handle' = [handle EXCEPT ![h].st = "dropped"]
    /\ last' = NoOp
    /\ UNCHANGED <<windows, size, need_frame_refresh, monitors,
                   factor, version, buffer_scale, destroyed, xvars, elvars, lkvars>>

\* a handle whose kill_switch is None: drop() does nothing
DropNoKillSwitch(h) ==
    /\ handle[h].st = "live"
    /\ ~handle[h].kill_switch
    /\ handle' = [handle EXCEPT ![h].st = "dropped"]
    /\ last' = NoOp
    /\ UNCHANGED <<windows, size, need_frame_refresh, kill_switch, monitors,
                   cleanup_needed, factor, version, buffer_scale, destroyed, xvars, elvars, lkvars>>

\* ------------------------------------------------------ WindowStore::cleanup
\* the closure of retain: false for a window whose kill switch is set
Dead(w) == IsSome(w.kill_switch) /\ kill_switch[Unwrap(w.kill_switch)]
Keep(w) == ~Dead(w)

\* cleanup whose closure forgets to answer false for a dead window
cleanup_keeps_dead(ws) ==
    LET dead == SelectSeq(ws, Dead)
    IN [ windows |-> ws,
         pruned |-> [i \in DOMAIN dead |-> make_wid(dead[i].surface)],
         destroy |-> [s \in Surfaces |->
                        Cardinality({i \in DOMAIN dead : dead[i].surface = s})] ]

\* cleanup that forgets w.surface.destroy()
cleanup_no_destroy(ws) ==
    LET dead == SelectSeq(ws, Dead)
    IN [ windows |-> SelectSeq(ws, Keep),
         pruned |-> [i \in DOMAIN dead |-> make_wid(dead[i].surface)],
         destroy |-> [s \in Surfaces |-> 0] ]

\* [windows, pruned, destroy]: the records kept, the ids pushed to `pruned`,
\* and the number of destroy requests sent for each surface
cleanup(ws) ==
    LET dead == SelectSeq(ws, Dead)
    IN [ windows |-> SelectSeq(ws, Keep),
         pruned |-> [i \in DOMAIN dead |-> make_wid(dead[i].surface)],
         destroy |-> [s \in Surfaces |->
                        Cardinality({i \in DOMAIN dead : dead[i].surface = s})] ]

Cleanup ==
    LET r == cleanup(windows)
    IN /\ windows' = r.windows
       /\ destroyed' = [s \in Surfaces |-> destroyed[s] + r.destroy[s]]
       /\ last' = [op |-> "cleanup", ret |-> r.pruned]
       /\ UNCHANGED <<handle, size, need_frame_refresh, kill_switch, monitors,
                      cleanup_needed, factor, version, buffer_scale, xvars, elvars, lkvars>>

\* --------------------------------------- frame events (closure of Window::new)
\* the closure belongs to the frame of handle h and lives as long as the frame
HasFrame(h) == handle[h].st \in {"live", "dropping"} /\ handle[h].frame

\* the record the `for window in &mut store.windows` loop stops at
\* (its index, 0 when the loop ends without a match)
Match(ws, surface) ==
    IF \E i \in DOMAIN ws : ws[i].surface = surface
    THEN CHOOSE i \in DOMAIN ws :
            /\ ws[i].surface = surface
            /\ \A j \in 1 .. i - 1 : ws[j].surface /= surface
    ELSE 0

\* WEvent::Configure { new_size, .. }
Configure(h, new_size) ==
    /\ HasFrame(h)
    /\ LET i == Match(windows, handle[h].surface)
       IN IF i = 0
          THEN UNCHANGED <<windows, need_frame_refresh>>
          ELSE /\ windows' = [windows EXCEPT ![i].newsize = new_size,
                                             ![i].need_refresh = TRUE]
               /\ need_frame_refresh' =
                    [need_frame_refresh EXCEPT ![windows[i].need_frame_refresh] = TRUE]
    /\ last' = NoOp
    /\ UNCHANGED <<handle, size, kill_switch, monitors, cleanup_needed, factor,
                   version, buffer_scale, destroyed, xvars, elvars, lkvars>>

\* WEvent::Refresh
Refresh(h) ==
    /\ HasFrame(h)
    /\ LET i == Match(windows, handle[h].surface)
       IN IF i = 0
          THEN UNCHANGED need_frame_refresh
          ELSE need_frame_refresh' =
                    [need_frame_refresh EXCEPT ![windows[i].need_frame_refresh] = TRUE]
    /\ last' = NoOp
    /\ UNCHANGED <<windows, handle, size, kill_switch, monitors, cleanup_needed,
                   factor, version, buffer_scale, destroyed, xvars, elvars, lkvars>>

Close_every_record(h) ==
    /\ HasFrame(h)
    /\ windows' = [i \in DOMAIN windows |-> [windows[i] EXCEPT !.closed = TRUE]]
    /\ last' = NoOp
    /\ UNCHANGED <<handle, size, need_frame_refresh, kill_switch, monitors,
                   cleanup_needed, factor, version, buffer_scale, destroyed, xvars, elvars, lkvars>>

Close_and_redraw(h) ==
    /\ HasFrame(h)
    /\ LET i == Match(windows, handle[h].surface)
       IN IF i = 0
          THEN UNCHANGED windows
          ELSE windows' = [windows EXCEPT ![i].closed = TRUE,
                                          ![i].need_refresh = TRUE]
    /\ last' = NoOp
    /\ UNCHANGED <<handle, size, need_frame_refresh, kill_switch, monitors,
                   cleanup_needed, factor, version, buffer_scale, destroyed, xvars, elvars, lkvars>>

\* WEvent::Close
Close(h) ==
    /\ HasFrame(h)
    /\ LET i == Match(windows, handle[h].surface)
       IN IF i = 0
          THEN UNCHANGED windows
          ELSE windows' = [windows EXCEPT ![i].closed = TRUE]
    /\ last' = NoOp
    /\ UNCHANGED <<handle, size, need_frame_refresh, kill_switch, monitors,
                   cleanup_needed, factor, version, buffer_scale, destroyed, xvars, elvars, lkvars>>

\* ------------------------------------------------------ Window handle calls
\* Window::set_decorations: expect() panics on a window made from raw parts
set_decorations(h) ==
    /\ handle[h].st = "live"
    /\ handle[h].frame
    /\ need_frame_refresh' = [need_frame_refresh EXCEPT ![h] = TRUE]
    /\ last' = NoOp
    /\ UNCHANGED <<windows, handle, size, kill_switch, monitors, cleanup_needed,
                   factor, version, buffer_scale, destroyed, xvars, elvars, lkvars>>

\* Window::set_inner_size
set_inner_size(h, sz) ==
    /\ handle[h].st = "live"
    /\ handle[h].frame
    /\ size' = [size EXCEPT ![h] = sz]
    /\ last' = NoOp
    /\ UNCHANGED <<windows, handle, need_frame_refresh, kill_switch, monitors,
                   cleanup_needed, factor, version, buffer_scale, destroyed, xvars, elvars>>

grab_cursor_ok(grab) == Ok

\* Window::grab_cursor
grab_cursor(grab) == Err("Cursor grabbing is not yet possible on Wayland.")

\* Window::set_cursor_position
set_cursor_position(pos) ==
    Err("Setting the cursor position is not yet possible on Wayland.")

\* a call of Window::grab_cursor on a window the caller holds
GrabCursor(h, grab) ==
    /\ handle[h].st = "live"
    /\ last' = [op |-> "grab_cursor", ret |-> grab_cursor(grab)]
    /\ UNCHANGED <<wlvars, xvars, elvars, lkvars>>

\* a call of Window::set_cursor_position on a window the caller holds
SetCursorPosition(h, pos) ==
    /\ handle[h].st = "live"
    /\ last' = [op |-> "set_cursor_position", ret |-> set_cursor_position(pos)]
    /\ UNCHANGED <<wlvars, xvars, elvars, lkvars>>

\* ------------------------------------------------------ WindowStore::for_each
\* window.frame.upgrade(), then and_then(|o| o.as_mut())
Upgrade(h) == handle[h].st \in {"live", "dropping"}
FrameOf_no_upgrade(w) == handle[w.frame].frame

\* the last argument of f: Some(frame) when the Weak upgrades and the cell
\* holds a frame
FrameOf(w) == Upgrade(w.frame) /\ handle[w.frame].frame

\* the arguments the visitor is called with for one record
Snapshot(w) ==
    [ newsize |-> w.newsize,
      size |-> size[w.size],
      new_dpi |-> w.new_dpi,
      need_refresh |-> w.need_refresh,
      need_frame_refresh |-> need_frame_refresh[w.need_frame_refresh],
      closed |-> w.closed,
      wid |-> make_wid(w.surface),
      frame |-> FrameOf(w) ]

\* a visit that forgets `window.closed = false`
Visited_keeps_closed(w) ==
    [w EXCEPT !.newsize = None,
              !.current_dpi = IF IsSome(w.new_dpi) THEN Unwrap(w.new_dpi) ELSE @,
              !.new_dpi = None,
              !.need_refresh = FALSE]

Visited_keeps_size(w) ==
    [w EXCEPT !.current_dpi = IF IsSome(w.new_dpi) THEN Unwrap(w.new_dpi) ELSE @,
              !.new_dpi = None,
              !.need_refresh = FALSE,
              !.closed = FALSE]

Visited_drops_dpi(w) ==
    [w EXCEPT !.newsize = None,
              !.new_dpi = None,
              !.need_refresh = FALSE,
              !.closed = FALSE]

\* the record after its visit: newsize and new_dpi taken, flags reset
Visited(w) ==
    [w EXCEPT !.newsize = None,
              !.current_dpi = IF IsSome(w.new_dpi) THEN Unwrap(w.new_dpi) ELSE @,
              !.new_dpi = None,
              !.need_refresh = FALSE,
              !.closed = FALSE]

visitor_closed_first(v) ==
    (IF v.closed THEN <<"CloseRequested">> ELSE <<>>)
    \o (IF IsSome(v.newsize) THEN <<"Resized">> ELSE <<>>)
    \o (IF IsSome(v.new_dpi) THEN <<"HiDpiFactorChanged">> ELSE <<>>)
    \o (IF v.need_refresh THEN <<"Refresh">> ELSE <<>>)

\* the visitor the loop gives to for_each: the events it sends to the
\* application callback for one snapshot, in the order it sends them
visitor(v) ==
    (IF IsSome(v.newsize) THEN <<"Resized">> ELSE <<>>)
    \o (IF IsSome(v.new_dpi) THEN <<"HiDpiFactorChanged">> ELSE <<>>)
    \o (IF v.need_refresh THEN <<"Refresh">> ELSE <<>>)
    \o (IF v.closed THEN <<"CloseRequested">> ELSE <<>>)

for_each_backwards(ws) ==
    [ windows |-> [i \in DOMAIN ws |-> Visited(ws[i])],
      visits |-> [i \in DOMAIN ws |-> Snapshot(ws[Len(ws) + 1 - i])],
      reset |-> {ws[i].need_frame_refresh : i \in DOMAIN ws} ]

\* [windows, visits, reset]: the records after the pass, the arguments of the
\* visitor calls in the order of the calls, and the needs-frame-refresh cells
\* the pass sets to false
for_each(ws) ==
    [ windows |-> [i \in DOMAIN ws |-> Visited(ws[i])],
      visits |-> [i \in DOMAIN ws |-> Snapshot(ws[i])],
      reset |-> {ws[i].need_frame_refresh : i \in DOMAIN ws} ]

ForEach ==
    LET r == for_each(windows)
    IN /\ windows' = r.windows
       /\ need_frame_refresh' =
            [h \in Handles |-> IF h \in r.reset THEN FALSE ELSE need_frame_refresh[h]]
       /\ last' = [op |-> "for_each", ret |-> r.visits]
       /\ UNCHANGED <<handle, size, kill_switch, monitors, cleanup_needed, factor,
                      version, buffer_scale, destroyed, xvars, elvars, lkvars>>

\* ------------------------------------- the locks of a drain pass and a handle
\* The loop thread ("loop") dispatches the frame events and drains the store;
\* another thread ("app") owns the Window of handle 1 and calls it.
Acquire(l, t) == held[l] = "free" /\ held' = [held EXCEPT ![l] = t]
Release(ls) == held' = [l \in Locks |-> IF l \in ls THEN "free" ELSE held[l]]

\* for_each takes `&mut self`: its caller holds the guard of the store mutex
\* from before the call until after it
DrainLock ==
    /\ fe_pc = "idle"
    /\ Acquire(StoreLock, "loop")
    /\ fe_pc' = "next"
    /\ fe_i' = 1
    /\ last' = NoOp
    /\ UNCHANGED <<wlvars, xvars, elvars, fe_taken, app_pc>>

\* `let mut opt_mutex_lock = opt_arc.as_ref().map(|m| m.lock().unwrap())`
FeFrameLock ==
    /\ fe_pc = "next"
    /\ fe_i <= Len(windows)
    /\ IF Upgrade(windows[fe_i].frame)
       THEN Acquire(FrameLock(windows[fe_i].frame), "loop")
       ELSE UNCHANGED held
    /\ fe_pc' = "frame"
    /\ last' = NoOp
    /\ UNCHANGED <<wlvars, xvars, elvars, fe_i, fe_taken, app_pc>>

\* the second argument of f: `&mut *(window.size.lock().unwrap())`
FeSizeLock ==
    /\ fe_pc = "frame"
    /\ Acquire(SizeLock(windows[fe_i].size), "loop")
    /\ fe_pc' = "size"
    /\ last' = NoOp
    /\ UNCHANGED <<wlvars, xvars, elvars, fe_i, fe_taken, app_pc>>

replace_reads(cells, c, v) == [cells |-> cells, old |-> cells[c]]

\* ::std::mem::replace(&mut *cell.lock().unwrap(), v): [cells, old]
replace(cells, c, v) == [cells |-> [cells EXCEPT ![c] = v], old |-> cells[c]]

\* the fifth argument of f: `window.need_frame_refresh.lock().unwrap()`, and
\* then the call of f; the guards made in the arguments live until the
\* statement `f(...);` ends
FeCall ==
    /\ fe_pc = "size"
    /\ Acquire(RefreshLock(windows[fe_i].need_frame_refresh), "loop")
    /\ LET r == replace(need_frame_refresh, windows[fe_i].need_frame_refresh, FALSE)
       IN /\ need_frame_refresh' = r.cells
          /\ fe_taken' = r.old
    /\ fe_pc' = "visiting"
    /\ last' = NoOp
    /\ UNCHANGED <<windows, handle, size, kill_switch, monitors, cleanup_needed,
                   factor, version, buffer_scale, destroyed, xvars, elvars,
                   fe_i, app_pc>>

\* what the visitor leaves in the size it was given as `&mut (u32, u32)`
visitor_size(v) ==
    IF IsSome(v.newsize) /\ v.frame THEN Unwrap(v.newsize) ELSE v.size

\* f returns, the guards of the statement and of the loop body are dropped,
\* and the rest of the loop body runs
FeReturn ==
    /\ fe_pc = "visiting"
    /\ LET w == windows[fe_i]
       IN /\ size' = [size EXCEPT ![w.size] = visitor_size(Snapshot(w))]
          /\ windows' = [windows EXCEPT ![fe_i] = Visited(w)]
          /\ Release({FrameLock(w.frame), SizeLock(w.size),
                      RefreshLock(w.need_frame_refresh)})
          /\ last' = [op |-> "visit",
                      ret |-> [Snapshot(w) EXCEPT !.need_frame_refresh = fe_taken]]
    /\ fe_pc' = "next"
    /\ fe_i' = fe_i + 1
    /\ UNCHANGED <<handle, need_frame_refresh, kill_switch, monitors, cleanup_needed,
                   factor, version, buffer_scale, destroyed, xvars, elvars,
                   fe_taken, app_pc>>

\* for_each returns and its caller drops the guard of the store
DrainUnlock ==
    /\ fe_pc = "next"
    /\ fe_i > Len(windows)
    /\ Release({StoreLock})
    /\ fe_pc' = "idle"
    /\ fe_i' = 0
    /\ last' = NoOp
    /\ UNCHANGED <<wlvars, xvars, elvars, fe_taken, app_pc>>

\* a frame event between drain passes: `window_store.lock().unwrap()`, and
\* for Configure and Refresh `window.need_frame_refresh.lock().unwrap()`
FrameEvent(A) ==
    /\ fe_pc = "idle"
    /\ held[StoreLock] = "free"
    /\ held[RefreshLock(1)] = "free"
    /\ A

\* the calls of the handle that read the size
GetSize == {"get_inner_size", "get_outer_size", "get_raw_parts"}

GetSizeLock_no_wait(op) ==
    /\ app_pc = "idle"
    /\ handle[1].st = "live"
    /\ held' = [held EXCEPT ![SizeLock(1)] = "app"]
    /\ app_pc' = op
    /\ last' = NoOp
    /\ UNCHANGED <<wlvars, xvars, elvars, fe_pc, fe_i, fe_taken>>

\* get_inner_size, get_outer_size, get_raw_parts: `self.size.lock().unwrap()`
GetSizeLock(op) ==
    /\ app_pc = "idle"
    /\ handle[1].st = "live"
    /\ Acquire(SizeLock(1), "app")
    /\ app_pc' = op
    /\ last' = NoOp
    /\ UNCHANGED <<wlvars, xvars, elvars, fe_pc, fe_i, fe_taken>>

\* the size is read through the guard, and the guard is dropped
GetSizeRead ==
    /\ app_pc \in GetSize
    /\ last' = [op |-> app_pc,
                ret |-> IF app_pc = "get_raw_parts" THEN get_raw_parts(1)
                        ELSE Some(size[1])]
    /\ Release({SizeLock(1)})
    /\ app_pc' = "idle"
    /\ UNCHANGED <<wlvars, xvars, elvars, fe_pc, fe_i, fe_taken>>

\* set_decorations: `let mut frame = self.frame.lock().unwrap()`
SetDecorationsFrame ==
    /\ app_pc = "idle"
    /\ handle[1].st = "live"
    /\ handle[1].frame
    /\ Acquire(FrameLock(1), "app")
    /\ app_pc' = "set_decorations_frame"
    /\ last' = NoOp
    /\ UNCHANGED <<wlvars, xvars, elvars, fe_pc, fe_i, fe_taken>>

\* set_decorations: `*(self.need_frame_refresh.lock().unwrap()) = true`, the
\* guard of the flag is dropped with the statement, that of the frame after it
SetDecorationsRefresh ==
    /\ app_pc = "set_decorations_frame"
    /\ held[RefreshLock(1)] = "free"
    /\ need_frame_refresh' = [need_frame_refresh EXCEPT ![1] = TRUE]
    /\ Release({FrameLock(1)})
    /\ app_pc' = "idle"
    /\ last' = NoOp
    /\ UNCHANGED <<windows, handle, size, kill_switch, monitors, cleanup_needed,
                   factor, version, buffer_scale, destroyed, xvars, elvars,
                   fe_pc, fe_i, fe_taken>>

SetInnerSizeOrder_size_first == <<SizeLock(1), FrameLock(1)>>

\* set_inner_size: the mutexes it locks, in the order it locks them
SetInnerSizeOrder == <<FrameLock(1), SizeLock(1)>>

\* set_inner_size: `let mut frame = self.frame.lock().unwrap()`
SetInnerSizeFrame ==
    /\ app_pc = "idle"
    /\ handle[1].st = "live"
    /\ handle[1].frame
    /\ Acquire(SetInnerSizeOrder[1], "app")
    /\ app_pc' = "set_inner_size_frame"
    /\ last' = NoOp
    /\ UNCHANGED <<wlvars, xvars, elvars, fe_pc, fe_i, fe_taken>>

\* set_inner_size: `self.size.lock().unwrap()`
SetInnerSizeLock ==
    /\ app_pc = "set_inner_size_frame"
    /\ Acquire(SetInnerSizeOrder[2], "app")
    /\ app_pc' = "set_inner_size_size"
    /\ last' = NoOp
    /\ UNCHANGED <<wlvars, xvars, elvars, fe_pc, fe_i, fe_taken>>

\* set_inner_size: `*(...) = (w, h)`, then both guards are dropped
SetInnerSizeWrite(sz) ==
    /\ app_pc = "set_inner_size_size"
    /\ set_inner_size(1, sz)
    /\ Release({SizeLock(1), FrameLock(1)})
    /\ app_pc' = "idle"
    /\ UNCHANGED <<fe_pc, fe_i, fe_taken>>

\* --------------------------------------------------------------- the store
Next ==
    \/ \E dims \in {None} \cup {Some(sz) : sz \in Sizes} : New(dims)
    \/ NewFromLive
    \/ NewFromForeign
    \/ \E h \in Handles : DropKillSwitch(h)
    \/ \E h \in Handles : DropCleanupNeeded(h)
    \/ \E h \in Handles : DropNoKillSwitch(h)
    \/ Cleanup

Spec == Init /\ [][Next]_vars

\* window lifecycle, close requests and the cursor calls
NextCursor ==
    \/ Next
    \/ \E h \in Handles : Close(h)
    \/ \E h \in Handles, grab \in BOOLEAN : GrabCursor(h, grab)
    \/ \E h \in Handles, pos \in Sizes : SetCursorPosition(h, pos)

SpecCursor == Init /\ [][NextCursor]_vars

\* ----------------------------------------------------- WindowStore::find_wid
find_wid_live_only(ws, surface) ==
    IF \E i \in DOMAIN ws : ws[i].surface = surface /\ Upgrade(ws[i].frame)
    THEN Some(make_wid(surface))
    ELSE None

find_wid(ws, surface) ==
    IF Match(ws, surface) /= 0 THEN Some(make_wid(surface)) ELSE None

FindWid(surface) ==
    /\ last' = [op |-> "find_wid", ret |-> <<surface, find_wid(windows, surface)>>]
    /\ UNCHANGED <<wlvars, xvars, elvars, lkvars>>

\* window lifecycle and lookups by surface
NextFind ==
    \/ Next
    \/ \E surface \in Surfaces : FindWid(surface)

SpecFind == Init /\ [][NextFind]_vars

\* ----------------------------------------------------- WindowStore::new_seat
Seats == 1 .. MaxSeats

\* the first record whose Weak upgrades to a cell holding None: expect() panics
\* there (0 when there is none)
SeatPanicAt(ws) ==
    IF \E i \in DOMAIN ws : Upgrade(ws[i].frame) /\ ~handle[ws[i].frame].frame
    THEN CHOOSE i \in DOMAIN ws :
            /\ Upgrade(ws[i].frame) /\ ~handle[ws[i].frame].frame
            /\ \A j \in 1 .. i - 1 :
                    ~(Upgrade(ws[j].frame) /\ ~handle[ws[j].frame].frame)
    ELSE 0

\* [frames, panicked]: the handles whose frame was given the seat, in order,
\* and whether the loop ended in the panic of expect()
new_seat(ws) ==
    LET stop == SeatPanicAt(ws)
        seen == IF stop = 0 THEN ws ELSE SubSeq(ws, 1, stop - 1)
        ok == SelectSeq(seen, LAMBDA w : Upgrade(w.frame))
    IN [ frames |-> [i \in DOMAIN ok |-> ok[i].frame],
         panicked |-> stop /= 0 ]

NewSeat(seat) ==
    /\ last' = [op |-> "new_seat", ret |-> <<seat, new_seat(windows)>>]
    /\ UNCHANGED <<wlvars, xvars, elvars, lkvars>>

\* window lifecycle and seats
NextSeat ==
    \/ Next
    \/ \E seat \in Seats : NewSeat(seat)

SpecSeat == Init /\ [][NextSeat]_vars

\* window lifecycle and drain passes
NextStore ==
    \/ Next
    \/ ForEach

SpecStore == Init /\ [][NextStore]_vars

\* ------------------------------------------------------------ MonitorList
\* MonitorId::get_hidpi_factor: the scale the OutputMgr holds for the output
get_hidpi_factor(o) == factor[o]

\* the loop of compute_hidpi_factor, started with `factor = f`
\* the loop without its comparison: the last monitor decides
RECURSIVE HidpiLoop_last_wins(_, _)
HidpiLoop_last_wins(ms, f) ==
    IF ms = <<>> THEN f
    ELSE HidpiLoop_last_wins(Tail(ms), get_hidpi_factor(Head(ms)))

RECURSIVE HidpiLoop(_, _)
HidpiLoop(ms, f) ==
    IF ms = <<>> THEN f
    ELSE LET monitor_dpi == get_hidpi_factor(Head(ms))
         IN HidpiLoop(Tail(ms), IF monitor_dpi > f THEN monitor_dpi ELSE f)

compute_hidpi_factor(ms) == HidpiLoop(ms, 1)

\* Window::hidpi_factor
hidpi_factor(h) == compute_hidpi_factor(monitors[h])

\* add_output comparing with >= instead of >
add_output_ge(ms, o) ==
    LET old_dpi == compute_hidpi_factor(ms)
        monitor_dpi == get_hidpi_factor(o)
    IN [ monitors |-> Append(ms, o),
         ret |-> IF monitor_dpi >= old_dpi THEN Some(monitor_dpi) ELSE None ]

add_output(ms, o) ==
    LET old_dpi == compute_hidpi_factor(ms)
        monitor_dpi == get_hidpi_factor(o)
    IN [ monitors |-> Append(ms, o),
         ret |-> IF monitor_dpi > old_dpi THEN Some(monitor_dpi) ELSE None ]

\* del_output that removes only the first entry of the output
del_output_first_only(ms, o) ==
    LET old_dpi == compute_hidpi_factor(ms)
        first == IF \E i \in DOMAIN ms : ms[i] = o
                 THEN CHOOSE i \in DOMAIN ms :
                        ms[i] = o /\ \A j \in 1 .. i - 1 : ms[j] /= o
                 ELSE 0
        kept == [i \in 1 .. (Len(ms) - (IF first = 0 THEN 0 ELSE 1)) |->
                    IF first = 0 \/ i < first THEN ms[i] ELSE ms[i + 1]]
        new_dpi == compute_hidpi_factor(kept)
    IN [ monitors |-> kept,
         ret |-> IF new_dpi /= old_dpi THEN Some(new_dpi) ELSE None ]

\* del_output that reports the factor whether or not it changed
del_output_always(ms, o) ==
    LET kept == SelectSeq(ms, LAMBDA m : m /= o)
    IN [ monitors |-> kept, ret |-> Some(compute_hidpi_factor(kept)) ]

del_output(ms, o) ==
    LET old_dpi == compute_hidpi_factor(ms)
        kept == SelectSeq(ms, LAMBDA m : m /= o)
        new_dpi == compute_hidpi_factor(kept)
    IN [ monitors |-> kept,
         ret |-> IF new_dpi /= old_dpi THEN Some(new_dpi) ELSE None ]

\* WindowStore::dpi_change
dpi_change(ws, surface, new) ==
    [i \in DOMAIN ws |->
        IF ws[i].surface = surface THEN [ws[i] EXCEPT !.new_dpi = Some(new)]
        ELSE ws[i]]

\* ------------------------- surface events (closure of Window::new)
\* the closure exists for surfaces made by Window::new, until their destruction
HasSurface(h) ==
    /\ handle[h].st /= "none"
    /\ handle[h].kill_switch
    /\ destroyed[handle[h].surface] = 0

\* `if let Some(dpi) = dpi_change { if surface.version() >= 3 { ... } }`
ApplyDpi(h, change) ==
    IF IsSome(change) /\ version >= DpiAwareVersion
    THEN /\ windows' = dpi_change(windows, handle[h].surface, Unwrap(change))
         /\ buffer_scale' = [buffer_scale EXCEPT ![handle[h].surface] = Unwrap(change)]
    ELSE UNCHANGED <<windows, buffer_scale>>

\* wl_surface::Event::Enter { output }
Enter(h, o) ==
    /\ HasSurface(h)
    /\ Len(monitors[h]) < MaxMonitors
    /\ LET r == add_output(monitors[h], o)
       IN /\ monitors' = [monitors EXCEPT ![h] = r.monitors]
          /\ ApplyDpi(h, r.ret)
          /\ last' = [op |-> "add_output", ret |-> r.ret]
    /\ UNCHANGED <<handle, size, need_frame_refresh, kill_switch, cleanup_needed,
                   factor, version, destroyed, xvars, elvars, lkvars>>

\* wl_surface::Event::Leave { output }
Leave(h, o) ==
    /\ HasSurface(h)
    /\ LET r == del_output(monitors[h], o)
       IN /\ monitors' = [monitors EXCEPT ![h] = r.monitors]
          /\ ApplyDpi(h, r.ret)
          /\ last' = [op |-> "del_output", ret |-> r.ret]
    /\ UNCHANGED <<handle, size, need_frame_refresh, kill_switch, cleanup_needed,
                   factor, version, destroyed, xvars, elvars, lkvars>>

\* the compositor announces another scale for an output
OutputScale(o, f) ==
    /\ f /= factor[o]
    /\ factor' = [factor EXCEPT ![o] = f]
    /\ last' = NoOp
    /\ UNCHANGED <<windows, handle, size, need_frame_refresh, kill_switch, monitors,
                   cleanup_needed, version, buffer_scale, destroyed, xvars, elvars, lkvars>>

\* ------------------------------------- notifications to a store of windows
\* the state after Window::new and then either a second Window::new or
\* Window::new_from_raw_parts(first.get_raw_parts()), no dimensions given
InitPair ==
    /\ XInit
    /\ ElInit
    /\ LkInit
    /\ \E raw \in BOOLEAN :
        /\ windows = << InternalWindow(1, 1, Some(1)),
                        IF raw THEN InternalWindow(2, 1, None)
                        ELSE InternalWindow(2, 2, Some(2)) >>
        /\ handle = [h \in Handles |->
                       IF h = 1 THEN [st |-> "live", surface |-> 1,
                                      kill_switch |-> TRUE, frame |-> TRUE]
                       ELSE IF h = 2
                       THEN [st |-> "live", surface |-> IF raw THEN 1 ELSE 2,
                             kill_switch |-> ~raw, frame |-> ~raw]
                       ELSE NoHandle]
        /\ need_frame_refresh = [h \in Handles |-> h = 1 \/ (h = 2 /\ ~raw)]
    /\ size = [h \in Handles |->
                 IF h \in {1, 2} THEN <<DefaultWidth, DefaultHeight>> ELSE <<0, 0>>]
    /\ kill_switch = [h \in Handles |-> FALSE]
    /\ monitors = [h \in Handles |-> <<>>]
    /\ cleanup_needed = FALSE
    /\ factor = [o \in Outputs |-> InitialDpi]
    /\ version \in Versions
    /\ buffer_scale = [s \in Surfaces |-> InitialDpi]
    /\ destroyed = [s \in Surfaces |-> 0]
    /\ last = NoOp

\* the frame events of the two windows and the surface events of the first
\* (one output)
NextNotify ==
    \/ \E h \in Handles, ns \in {None} \cup {Some(sz) : sz \in Sizes} : Configure(h, ns)
    \/ \E h \in Handles : Refresh(h)
    \/ \E h \in Handles : Close(h)
    \/ Enter(1, 1)
    \/ Leave(1, 1)
    \/ \E f \in Factors : OutputScale(1, f)

SpecNotify == InitPair /\ [][NextNotify]_vars

\* the notifications of two windows while their handles are dropped and the
\* store is cleaned up
NextStray ==
    \/ \E h \in Handles : DropKillSwitch(h)
    \/ \E h \in Handles : DropCleanupNeeded(h)
    \/ \E h \in Handles : DropNoKillSwitch(h)
    \/ Cleanup
    \/ \E h \in Handles, ns \in {None} \cup {Some(sz) : sz \in Sizes} : Configure(h, ns)
    \/ \E h \in Handles : Refresh(h)
    \/ \E h \in Handles : Close(h)
    \/ Enter(1, 1)
    \/ Leave(1, 1)

SpecStray == InitPair /\ [][NextStray]_vars

\* ---------------------------------------------- one window and its monitors
\* the state Window::new leaves behind on an empty store when
\* attributes.dimensions is None
InitWin ==
    /\ XInit
    /\ ElInit
    /\ LkInit
    /\ windows = <<InternalWindow(1, 1, Some(1))>>
    /\ handle = [h \in Handles |->
                   IF h = 1 THEN [st |-> "live", surface |-> 1,
                                  kill_switch |-> TRUE, frame |-> TRUE]
                   ELSE NoHandle]
    /\ size = [h \in Handles |->
                 IF h = 1 THEN <<DefaultWidth, DefaultHeight>> ELSE <<0, 0>>]
    /\ need_frame_refresh = [h \in Handles |-> h = 1]
    /\ kill_switch = [h \in Handles |-> FALSE]
    /\ monitors = [h \in Handles |-> <<>>]
    /\ cleanup_needed = FALSE
    /\ factor = [o \in Outputs |-> InitialDpi]
    /\ version \in Versions
    /\ buffer_scale = [s \in Surfaces |-> InitialDpi]
    /\ destroyed = [s \in Surfaces |-> 0]
    /\ last = NoOp

NextMon ==
    \/ \E o \in Outputs : Enter(1, o)
    \/ \E o \in Outputs : Leave(1, o)
    \/ \E o \in Outputs, f \in Factors : OutputScale(o, f)

SpecMon == InitWin /\ [][NextMon]_vars

NextWin ==
    \/ \E o \in Outputs : Enter(1, o)
    \/ \E o \in Outputs : Leave(1, o)
    \/ \E o \in Outputs, f \in Factors : OutputScale(o, f)
    \/ \E ns \in {None} \cup {Some(sz) : sz \in Sizes} : Configure(1, ns)
    \/ Refresh(1)
    \/ Close(1)
    \/ set_decorations(1)
    \/ ForEach

SpecWin == InitWin /\ [][NextWin]_vars

\* one window, its frame events, the outputs it enters and leaves, and its
\* drain passes
NextResize ==
    \/ \E o \in Outputs : Enter(1, o)
    \/ \E o \in Outputs : Leave(1, o)
    \/ set_decorations(1)
    \/ \E ns \in {None} \cup {Some(sz) : sz \in Sizes} : Configure(1, ns)
    \/ Refresh(1)
    \/ Close(1)
    \/ ForEach

SpecResize == InitWin /\ [][NextResize]_vars

\* one window entering and leaving outputs whose scale changes only while the
\* window is not on them, and its drain passes
OutputScaleAway(o, f) ==
    /\ \A i \in DOMAIN monitors[1] : monitors[1][i] /= o
    /\ OutputScale(o, f)

NextDpi ==
    \/ \E o \in Outputs : Enter(1, o)
    \/ \E o \in Outputs : Leave(1, o)
    \/ \E o \in Outputs, f \in Factors : OutputScaleAway(o, f)
    \/ ForEach

SpecDpi == InitWin /\ [][NextDpi]_vars

\* one window, its drain passes and the calls of its handle, lock by lock
NextLock ==
    \/ DrainLock
    \/ FeFrameLock
    \/ FeSizeLock
    \/ FeCall
    \/ FeReturn
    \/ DrainUnlock
    \/ \E ns \in {None} \cup {Some(sz) : sz \in Sizes} : FrameEvent(Configure(1, ns))
    \/ FrameEvent(Refresh(1))
    \/ FrameEvent(Close(1))
    \/ SetDecorationsFrame
    \/ SetDecorationsRefresh
    \/ \E op \in GetSize : GetSizeLock(op)
    \/ GetSizeRead
    \/ SetInnerSizeFrame
    \/ SetInnerSizeLock
    \/ \E sz \in Sizes : SetInnerSizeWrite(sz)

SpecLock == InitWin /\ [][NextLock]_vars

\* a callback or a cleanup pass of the loop thread between drain passes: it
\* locks the store, and inside it the frame-refresh flag or the kill switches
LoopStep(A) ==
    /\ fe_pc = "idle"
    /\ held[StoreLock] = "free"
    /\ held[RefreshLock(1)] = "free"
    /\ A

\* drop(window) on the thread of the handle: no call of the handle is running
AppDrop(A) ==
    /\ app_pc = "idle"
    /\ A

\* the drain passes, callbacks and cleanup passes of the loop thread and the
\* calls and the drop of the handle on another thread
NextOrder ==
    \/ NextLock
    \/ LoopStep(Enter(1, 1))
    \/ LoopStep(Leave(1, 1))
    \/ LoopStep(Cleanup)
    \/ AppDrop(DropKillSwitch(1))
    \/ AppDrop(DropCleanupNeeded(1))

SpecOrder == InitWin /\ [][NextOrder]_vars

\* a thread that can go on does, and a thread waiting for a mutex that is
\* released again and again gets it
FairOrder ==
    /\ SF_vars(FeFrameLock)
    /\ SF_vars(FeSizeLock)
    /\ SF_vars(FeCall)
    /\ WF_vars(FeReturn)
    /\ WF_vars(DrainUnlock)
    /\ WF_vars(GetSizeRead)
    /\ SF_vars(SetDecorationsRefresh)
    /\ SF_vars(SetInnerSizeLock)
    /\ WF_vars(\E sz \in Sizes : SetInnerSizeWrite(sz))
    /\ WF_vars(AppDrop(DropCleanupNeeded(1)))

SpecOrderFair == SpecOrder /\ FairOrder

\* ------------------------------------------- the loop and dropped windows
\* the loop locks cleanup_needed and finds it set
LoopObserve ==
    /\ fe_pc = "idle"
    /\ cleanup_needed
    /\ fe_pc' = "cleanup"
    /\ last' = NoOp
    /\ UNCHANGED <<wlvars, xvars, elvars, held, fe_i, fe_taken, app_pc>>

\* with the flag still locked it runs cleanup, clears the flag and unlocks it
LoopCleanup ==
    /\ fe_pc = "cleanup"
    /\ LET r == cleanup(windows)
       IN /\ windows' = r.windows
          /\ destroyed' = [s \in Surfaces |-> destroyed[s] + r.destroy[s]]
          /\ last' = [op |-> "cleanup", ret |-> r.pruned]
    /\ cleanup_needed' = FALSE
    /\ fe_pc' = "idle"
    /\ UNCHANGED <<handle, size, need_frame_refresh, kill_switch, monitors,
                   factor, version, buffer_scale, xvars, elvars,
                   held, fe_i, fe_taken, app_pc>>

\* the second statement of drop() waits while the loop holds cleanup_needed
DropFlag(h) ==
    /\ fe_pc /= "cleanup"
    /\ DropCleanupNeeded(h)

\* windows made and dropped on other threads while the loop reaps them
NextReap ==
    \/ \E dims \in {None} \cup {Some(sz) : sz \in Sizes} : New(dims)
    \/ NewFromLive
    \/ NewFromForeign
    \/ \E h \in Handles : DropKillSwitch(h)
    \/ \E h \in Handles : DropFlag(h)
    \/ \E h \in Handles : DropNoKillSwitch(h)
    \/ LoopObserve
    \/ LoopCleanup

SpecReap == Init /\ [][NextReap]_vars

\* ------------------------------------------------------------ XConnection
\* a read of the slot that leaves the error in it
take_keeps(slot) == [slot |-> slot, error |-> slot]

\* Option::take on the locked slot: [slot, error]
take(slot) == [slot |-> None, error |-> slot]

\* `if let Some(error) = error { Err(error) } else { Ok(()) }`
check_errors_result(error) ==
    IF IsSome(error) THEN Err(Unwrap(error)) ELSE Ok

\* an ignore_error that leaves the slot as it is
ignore_error_keeps(slot) == slot

\* `*self.latest_error.lock() = None`
ignore_error(slot) == None

\* check_errors, first statement: `self.latest_error.lock().take()`
CheckErrorsTake(t) ==
    /\ xpc[t] = "idle"
    /\ LET r == take(latest_error)
       IN /\ latest_error' = r.slot
          /\ xerror' = [xerror EXCEPT ![t] = r.error]
    /\ xseen' = [xseen EXCEPT ![t] = latest_error]
    /\ xpc' = [xpc EXCEPT ![t] = "taken"]
    /\ last' = NoOp
    /\ UNCHANGED <<raised, returned, lost, wlvars, elvars, lkvars>>

\* check_errors, the result
CheckErrorsReturn(t) ==
    /\ xpc[t] = "taken"
    /\ LET res == check_errors_result(xerror[t])
       IN /\ last' = [op |-> "check_errors", ret |-> res]
          /\ returned' = IF res = Ok THEN returned
                         ELSE [returned EXCEPT ![res[2]] = @ + 1]
    /\ xpc' = [xpc EXCEPT ![t] = "idle"]
    /\ xerror' = [xerror EXCEPT ![t] = None]
    /\ xseen' = [xseen EXCEPT ![t] = None]
    /\ UNCHANGED <<latest_error, raised, lost, wlvars, elvars, lkvars>>

\* XConnection::ignore_error
IgnoreError(t) ==
    /\ xpc[t] = "idle"
    /\ latest_error' = ignore_error(latest_error)
    /\ lost' = lost \cup {latest_error[i] : i \in DOMAIN latest_error}
    /\ last' = [op |-> "ignore_error", ret |-> None]
    /\ UNCHANGED <<xpc, xerror, xseen, raised, returned, wlvars, elvars, lkvars>>

\* the error handler given to XConnection::new stores the error it is called
\* with; errors are numbered in the order they are raised
ErrorHandler ==
    /\ raised < MaxErrors
    /\ raised' = raised + 1
    /\ latest_error' = Some(raised + 1)
    /\ lost' = lost \cup {latest_error[i] : i \in DOMAIN latest_error}
    /\ last' = NoOp
    /\ UNCHANGED <<xpc, xerror, xseen, returned, wlvars, elvars, lkvars>>

NextX ==
    \/ \E t \in Threads : CheckErrorsTake(t)
    \/ \E t \in Threads : CheckErrorsReturn(t)
    \/ \E t \in Threads : IgnoreError(t)
    \/ ErrorHandler

SpecX == Init /\ [][NextX]_vars

\* -------------------------------------------------------------- EventsLoop
\* The platform loop behind EventsLoop::poll_events, EventsLoop::run_forever
\* and EventsLoopProxy::wakeup (src/lib.rs delegates to it).
Continue == "Continue"
Break == "Break"
ControlFlow == {Continue, Break}
EventsLoopClosed == "Tried to wake up a closed EventsLoop"

\* a native event becomes ready on the connection
NativeEvent ==
    /\ el_alive
    /\ el_budget > 0
    /\ el_budget' = el_budget - 1
    /\ el_queue' = Append(el_queue, "Event")
    /\ last' = NoOp
    /\ UNCHANGED <<el_alive, el_mode, el_left, el_calls, el_woken, wlvars, xvars, lkvars>>

wakeup_always_ok(alive) == Ok

\* the result of EventsLoopProxy::wakeup for a loop that exists or not
wakeup(alive) == IF alive THEN Ok ELSE Err(EventsLoopClosed)

\* EventsLoopProxy::wakeup, from any thread; pending wakeups coalesce
Wakeup ==
    /\ (el_alive /\ ~el_woken) => el_budget > 0
    /\ el_budget' = IF el_alive /\ ~el_woken THEN el_budget - 1 ELSE el_budget
    /\ el_woken' = (el_alive \/ el_woken)
    /\ last' = [op |-> "wakeup", ret |-> wakeup(el_alive)]
    /\ UNCHANGED <<el_alive, el_mode, el_queue, el_left, el_calls, wlvars, xvars, lkvars>>

\* the loop is dropped by its owning thread
LoopDrop ==
    /\ el_alive
    /\ el_mode = "idle"
    /\ el_alive' = FALSE
    /\ el_queue' = <<>>
    /\ el_woken' = FALSE
    /\ last' = NoOp
    /\ UNCHANGED <<el_mode, el_left, el_calls, el_budget, wlvars, xvars, lkvars>>

Dispatched_drops_wakeup == el_queue

\* one dispatch: a pending wakeup becomes an Awakened event, and every queued
\* event belongs to the pass
Dispatched == IF el_woken THEN Append(el_queue, "Awakened") ELSE el_queue

\* poll_events: the non-blocking dispatch
PollStart ==
    /\ el_alive
    /\ el_mode = "idle"
    /\ el_mode' = "poll"
    /\ el_queue' = Dispatched
    /\ el_left' = Len(Dispatched)
    /\ el_woken' = FALSE
    /\ el_calls' = 0
    /\ last' = NoOp
    /\ UNCHANGED <<el_alive, el_budget, wlvars, xvars, lkvars>>

PollDeliver_again ==
    /\ el_mode = "poll"
    /\ el_left > 0
    /\ el_calls < MaxEvents
    /\ el_calls' = el_calls + 1
    /\ last' = [op |-> "callback", ret |-> <<Head(el_queue), None>>]
    /\ UNCHANGED <<el_alive, el_mode, el_queue, el_left, el_woken, el_budget,
                   wlvars, xvars, lkvars>>

\* poll_events: the callback is called with the next event of the pass; what
\* it returns is ()
PollDeliver ==
    /\ el_mode = "poll"
    /\ el_left > 0
    /\ el_queue' = Tail(el_queue)
    /\ el_left' = el_left - 1
    /\ el_calls' = el_calls + 1
    /\ last' = [op |-> "callback", ret |-> <<Head(el_queue), None>>]
    /\ UNCHANGED <<el_alive, el_mode, el_woken, el_budget, wlvars, xvars, lkvars>>

\* poll_events returns
PollReturn ==
    /\ el_mode = "poll"
    /\ el_left = 0
    /\ el_mode' = "idle"
    /\ last' = [op |-> "poll_events", ret |-> None]
    /\ UNCHANGED <<el_alive, el_queue, el_left, el_calls, el_woken, el_budget,
                   wlvars, xvars, lkvars>>

\* run_forever is entered
RunStart ==
    /\ el_alive
    /\ el_mode = "idle"
    /\ el_mode' = "run"
    /\ el_left' = 0
    /\ el_calls' = 0
    /\ last' = NoOp
    /\ UNCHANGED <<el_alive, el_queue, el_woken, el_budget, wlvars, xvars, lkvars>>

\* run_forever: the blocking dispatch returns once something is pending
RunDispatch ==
    /\ el_mode = "run"
    /\ el_left = 0
    /\ Dispatched /= <<>>
    /\ el_queue' = Dispatched
    /\ el_left' = Len(Dispatched)
    /\ el_woken' = FALSE
    /\ last' = NoOp
    /\ UNCHANGED <<el_alive, el_mode, el_calls, el_budget, wlvars, xvars, lkvars>>

after_callback_ignores_break(cf, left) == [mode |-> "run", left |-> left - 1]

\* what run_forever does with the value the callback returned:
\* [mode, left] after the delivery
after_callback(cf, left) ==
    IF cf = Break THEN [mode |-> "idle", left |-> 0]
    ELSE [mode |-> "run", left |-> left - 1]

\* run_forever: the callback is called with the next event and returns cf
RunDeliver(cf) ==
    /\ el_mode = "run"
    /\ el_left > 0
    /\ el_queue' = Tail(el_queue)
    /\ el_calls' = el_calls + 1
    /\ LET r == after_callback(cf, el_left)
       IN /\ el_mode' = r.mode
          /\ el_left' = r.left
    /\ last' = [op |-> "callback", ret |-> <<Head(el_queue), Some(cf)>>]
    /\ UNCHANGED <<el_alive, el_woken, el_budget, wlvars, xvars, lkvars>>

NextLoop ==
    \/ NativeEvent
    \/ Wakeup
    \/ LoopDrop
    \/ PollStart
    \/ PollDeliver
    \/ PollReturn
    \/ RunStart
    \/ RunDispatch
    \/ \E cf \in ControlFlow : RunDeliver(cf)

SpecLoop == Init /\ [][NextLoop]_vars

\* the loop thread keeps running and the owner keeps calling the loop
FairLoop ==
    /\ WF_vars(PollStart)
    /\ WF_vars(PollDeliver)
    /\ WF_vars(PollReturn)
    /\ WF_vars(RunDispatch)
    /\ WF_vars(\E cf \in ControlFlow : RunDeliver(cf))

SpecLoopFair == SpecLoop /\ FairLoop

\* ================================================================ claims
Range(s) == {s[i] : i \in DOMAIN s}
MaxOf(S) == CHOOSE m \in S : \A x \in S : x <= m

\* the kill switch of a record is set (an absent kill switch is never set)
Marked(w) ==
    /\ w.kill_switch /= None
    /\ kill_switch[w.kill_switch[1]]

\* a record is the one registered by handle h
RecordOf(ws, h) == {i \in DOMAIN ws : ws[i].frame = h}

\* C1: a cleanup pass removes exactly the records whose kill switch is set,
\* keeps the others in their order, and returns the ids of the removed records,
\* each once; a cleanup pass that directly follows a cleanup pass returns the
\* empty sequence and leaves the store as it is.
C1_CleanupExactlyOnce ==
    [][Cleanup =>
        LET dead == {i \in DOMAIN windows : Marked(windows[i])}
            ret == last'.ret
        IN /\ \A i \in DOMAIN windows :
                IF i \in dead
                THEN RecordOf(windows', windows[i].frame) = {}
                ELSE \E j \in DOMAIN windows' :
                        /\ windows'[j] = windows[i]
                        /\ j = i - Cardinality({k \in dead : k < i})
           /\ Len(windows') = Len(windows) - Cardinality(dead)
           /\ Len(ret) = Cardinality(dead)
           /\ \A i \in dead :
                Cardinality({j \in DOMAIN ret :
                                ret[j] = make_wid(windows[i].surface)}) = 1
           /\ (last.op = "cleanup" => ret = <<>> /\ windows' = windows)
    ]_vars

\* C1 witness: a cleanup pass has just returned the ids of two dropped windows
C1_Witness ==
    /\ last.op = "cleanup"
    /\ Len(last.ret) = 2
    /\ last.ret[1] /= last.ret[2]
    /\ windows = <<>>

\* C2: at every cleanup pass, each record whose handle has been dropped is
\* removed and its id is among the ids the pass returns.
C2_DropObservable ==
    [][Cleanup =>
        \A i \in DOMAIN windows :
            handle[windows[i].frame].st = "dropped" =>
                /\ make_wid(windows[i].surface) \in Range(last'.ret)
                /\ RecordOf(windows', windows[i].frame) = {}
    ]_vars

\* C4: the store never holds two records with the same surface, and holds
\* exactly one record for the surface of every live window handle.
C4_OneRecordPerWindow ==
    /\ \A i, j \in DOMAIN windows :
            windows[i].surface = windows[j].surface => i = j
    /\ \A h \in Handles :
            handle[h].st = "live" =>
                Cardinality({i \in DOMAIN windows :
                                windows[i].surface = handle[h].surface}) = 1

\* a step of drop() of handle h
DropStep(h) ==
    /\ handle'[h].st /= handle[h].st
    /\ handle'[h].st \in {"dropping", "dropped"}

\* C5: a step of drop() changes nothing but the kill switch of its handle and
\* the cleanup-needed flag; records leave the store and surfaces are destroyed
\* only in a cleanup pass, which destroys the surface of each record it removes
\* once, so that every id it returns names a destroyed surface and no surface
\* is destroyed twice.
C5_FlagPlusReaper ==
    [][ /\ \A h \in Handles :
            DropStep(h) =>
                /\ windows' = windows
                /\ destroyed' = destroyed
                /\ \A g \in Handles \ {h} : kill_switch'[g] = kill_switch[g]
                /\ <<size, need_frame_refresh, monitors, buffer_scale>>' =
                        <<size, need_frame_refresh, monitors, buffer_scale>>
        /\ ( \/ destroyed' /= destroyed
             \/ \E i \in DOMAIN windows : RecordOf(windows', windows[i].frame) = {} )
            => Cleanup
        /\ Cleanup =>
            /\ \A s \in Surfaces :
                    destroyed'[s] = destroyed[s] +
                        Cardinality({i \in DOMAIN windows :
                            /\ windows[i].surface = s
                            /\ RecordOf(windows', windows[i].frame) = {}})
            /\ \A j \in DOMAIN last'.ret : destroyed'[last'.ret[j].WindowId] = 1
        /\ \A s \in Surfaces : destroyed'[s] <= 1
    ]_vars

\* C5 witness: a window was dropped and a cleanup pass has destroyed its surface
\* while the record of another, live window stays in the store
C5_Witness ==
    /\ last.op = "cleanup"
    /\ \E h \in Handles :
            /\ handle[h].st = "dropped"
            /\ cleanup_needed
            /\ destroyed[handle[h].surface] = 1
            /\ make_wid(handle[h].surface) \in Range(last.ret)
    /\ windows /= <<>>

\* what a drain pass reports for a record that has nothing pending
NothingPending(v) ==
    /\ v.newsize = None
    /\ v.new_dpi = None
    /\ ~v.need_refresh
    /\ ~v.need_frame_refresh
    /\ ~v.closed

\* C3: right after a drain pass, a second drain pass reports for every record
\* no pending resize, no pending DPI, needs-redraw false, needs-frame-refresh
\* false and closed false.
C3_DrainResets ==
    last.op = "for_each" =>
        LET second == for_each(windows).visits
        IN \A i \in DOMAIN second : NothingPending(second[i])

\* C3 witness: the drain pass that just ran reported a resize, a DPI change,
\* a redraw, a frame refresh and a close for one record
C3_Witness ==
    /\ last.op = "for_each"
    /\ \E i \in DOMAIN last.ret :
            /\ last.ret[i].newsize /= None
            /\ last.ret[i].new_dpi /= None
            /\ last.ret[i].need_refresh
            /\ last.ret[i].need_frame_refresh
            /\ last.ret[i].closed

\* the largest of 1 and the factors of the outputs in a monitor list
Aggregate(ms) == MaxOf({1} \cup {factor[ms[i]] : i \in DOMAIN ms})

\* C6: the scale factor of the window is the largest of 1 and the factors of
\* the monitors in its list, and is 1 when the list is empty.
C6_FactorIsMax ==
    /\ hidpi_factor(1) = Aggregate(monitors[1])
    /\ monitors[1] = <<>> => hidpi_factor(1) = 1

\* C6 witness: the window is on two monitors, the first with the larger factor
C6_Witness ==
    /\ Len(monitors[1]) = 2
    /\ factor[monitors[1][1]] > factor[monitors[1][2]]
    /\ hidpi_factor(1) = factor[monitors[1][1]]

\* C7: add_output appends the monitor and returns Some(f) exactly when the
\* aggregate after the insertion is greater than the aggregate before it, f
\* being the new aggregate, and None otherwise.
C7_AddOutput ==
    [][\A o \in Outputs :
        Enter(1, o) =>
            LET before == Aggregate(monitors[1])
                after == Aggregate(monitors'[1])
            IN /\ monitors'[1] = Append(monitors[1], o)
               /\ last'.ret = IF after > before THEN Some(after) ELSE None
    ]_vars

\* C7 witness: a monitor of the aggregate's own factor (above 1) was just added
\* and add_output returned None
C7_Witness ==
    /\ last.op = "add_output"
    /\ last.ret = None
    /\ Len(monitors[1]) = 2
    /\ factor[monitors[1][1]] = 2
    /\ factor[monitors[1][2]] = 2
    /\ monitors[1][1] /= monitors[1][2]

\* C8: del_output removes every entry of the output and returns Some(f) exactly
\* when the aggregate after the removal differs from the aggregate before it, f
\* being the new aggregate; it returns None when the aggregate is unchanged,
\* also when the output was not in the list.
C8_DelOutput ==
    [][\A o \in Outputs :
        Leave(1, o) =>
            LET before == Aggregate(monitors[1])
                after == Aggregate(monitors'[1])
            IN /\ o \notin Range(monitors'[1])
               /\ Len(monitors'[1]) =
                    Cardinality({i \in DOMAIN monitors[1] : monitors[1][i] /= o})
               /\ \A m \in Range(monitors[1]) \ {o} : m \in Range(monitors'[1])
               /\ last'.ret = IF after /= before THEN Some(after) ELSE None
    ]_vars

\* C8 witness: the monitor with the largest factor was just removed, another
\* stays, and del_output returned the smaller aggregate
C8_Witness ==
    /\ last.op = "del_output"
    /\ monitors[1] /= <<>>
    /\ last.ret = Some(hidpi_factor(1))
    /\ \E o \in Outputs : factor[o] > hidpi_factor(1)

\* C9: no error is returned as Err by more than one check_errors call, two
\* calls in progress never hold the same error, and a call returns Ok exactly
\* when the slot was empty when it took the lock.
C9_TakeIsAtomic ==
    [][ /\ \A e \in 1 .. MaxErrors : returned'[e] <= 1
        /\ \A t, u \in Threads :
                (t /= u /\ xerror'[t] /= None) => xerror'[t] /= xerror'[u]
        /\ \A t \in Threads :
                CheckErrorsReturn(t) =>
                    /\ (last'.ret = Ok) <=> (xseen[t] = None)
                    /\ xseen[t] /= None => last'.ret = Err(xseen[t][1])
    ]_vars

\* C9 witness: two check_errors calls ran at the same time, one has returned
\* the error and the other holds nothing
C9_Witness ==
    /\ last.op = "check_errors"
    /\ last.ret = Err(1)
    /\ returned[1] = 1
    /\ \E t \in Threads : xpc[t] = "taken" /\ xerror[t] = None

\* C10: the slot holds only the error stored last: an error overwritten or
\* ignored while in the slot is never returned, a check takes the most recent
\* error; ignore_error empties the slot and returns nothing, and a check that
\* takes the lock right after it finds no error.
C10_LastWriteWins ==
    [][ /\ \A e \in lost' : returned'[e] = 0 /\ \A t \in Threads : xerror'[t] /= Some(e)
        /\ \A t \in Threads :
                CheckErrorsTake(t) =>
                    /\ xerror'[t] \in {None, Some(raised)}
                    /\ last.op = "ignore_error" => xerror'[t] = None
        /\ \A t \in Threads :
                IgnoreError(t) => latest_error' = None /\ last'.ret = None
    ]_vars

\* C10 witness: two errors were stored before any check, and the check that
\* followed returned the second
C10_Witness ==
    /\ lost = {1}
    /\ last.op = "check_errors"
    /\ last.ret = Err(2)
    /\ returned[1] = 0


\* the callback has just been called (with an event, returning cf)
Called == last.op = "callback"
Returned(cf) == Called /\ last.ret[2] = Some(cf)

\* C11: in run_forever every delivery is one call of the callback; the
\* delivery on which the callback returns Break makes run_forever return at
\* once, the events still buffered stay undelivered (no call is made until
\* the loop is entered again), and run_forever returns on no other step.
C11_BreakStops ==
    [][ /\ (el_mode = "run" /\ Called') =>
                /\ el_calls' = el_calls + 1
                /\ Returned(Break)' =>
                        el_mode' = "idle" /\ el_queue' = Tail(el_queue)
                /\ Returned(Continue)' => el_mode' = "run"
        /\ (el_mode = "run" /\ el_mode' /= "run") => Returned(Break)'
        /\ el_mode = "idle" => ~Called' /\ el_calls' \in {el_calls, 0}
    ]_vars

\* C11 witness: three events were pending, the callback returned Break on the
\* second, run_forever has returned after two calls and one event is left
C11_Witness ==
    /\ Returned(Break)
    /\ el_mode = "idle"
    /\ el_calls = 2
    /\ el_left = 0
    /\ Len(el_queue) = 1

\* C12: wakeup() on a destroyed loop can always complete, returns
\* Err(EventsLoopClosed) and changes nothing else, whatever wakeups and
\* teardown came before.
C12_ClosedLoop ==
    /\ [](~el_alive => ENABLED Wakeup)
    /\ [][ (~el_alive /\ last'.op = "wakeup") =>
                /\ last'.ret = Err(EventsLoopClosed)
                /\ UNCHANGED <<elvars, wlvars, xvars, lkvars>>
       ]_vars

\* C12 witness: wakeup() returned Ok, the loop was destroyed, and the next
\* wakeup() has returned the closed-loop error
C12_Witness ==
    /\ ~el_alive
    /\ last.op = "wakeup"
    /\ last.ret = Err(EventsLoopClosed)
    /\ el_budget < MaxEvents

\* C13: after a wakeup() that returned Ok, the loop delivers an Awakened event
\* or is destroyed; until then the wakeup stays pending.
C13_WakeupAtLeastOnce ==
    /\ (last.op = "wakeup" /\ last.ret = Ok)
            ~> (~el_alive \/ (Called /\ last.ret[1] = "Awakened"))
    /\ [][ (last'.op = "wakeup" /\ last'.ret = Ok) => el_woken' ]_vars

\* C13 witness: Awakened has just been delivered by a pass that started with
\* a wakeup pending
C13_Witness ==
    /\ Called
    /\ last.ret[1] = "Awakened"
    /\ el_budget = MaxEvents - 1

\* C14: poll_events is one pass: it can start whenever the loop is idle, the
\* pass is made of the events pending at its start, each delivery is one call
\* and takes one event off the pass, events that arrive later do not join it,
\* poll_events returns only when the pass is used up, and it always returns.
C14_PollOnePass ==
    /\ [][ /\ (el_mode = "idle" /\ el_mode' = "poll") =>
                   /\ el_calls' = 0
                   /\ el_left' = Len(el_queue) + (IF el_woken THEN 1 ELSE 0)
           /\ (el_mode = "poll" /\ el_mode' = "poll") =>
                   /\ el_calls' + el_left' = el_calls + el_left
                   /\ Called' <=> el_calls' = el_calls + 1
           /\ (el_mode = "poll" /\ el_mode' = "idle") =>
                   /\ el_left = 0
                   /\ el_calls' = el_calls
      ]_vars
    /\ (el_mode = "poll") ~> (el_mode = "idle")

\* C14 witness: poll_events has returned from a pass without any event
C14_Witness ==
    /\ last.op = "poll_events"
    /\ el_calls = 0
    /\ el_budget = MaxEvents


\* C15: grab_cursor and set_cursor_position return Err with a message, for
\* every window the caller holds and in every state of it, and change neither
\* the handle nor the store nor anything else the other operations read.
C15_CursorUnsupported ==
    [][ last'.op \in {"grab_cursor", "set_cursor_position"} =>
            /\ last'.ret[1] = "Err"
            /\ last'.ret[2] /= ""
            /\ UNCHANGED <<wlvars, xvars, elvars, lkvars>>
    ]_vars

\* C15 witness: grab_cursor has returned its error while the store holds a
\* record with a close request
C15_Witness ==
    /\ last.op = "grab_cursor"
    /\ last.ret = Err("Cursor grabbing is not yet possible on Wayland.")
    /\ \E i \in 1 .. Len(windows) : windows[i].closed


\* the fields of record i that a step changes (the size and the
\* needs-frame-refresh flag are cells the record shares with its handle)
RecordFields ==
    {"surface", "newsize", "need_refresh", "closed", "kill_switch", "frame",
     "current_dpi", "new_dpi"}
Changed(i) ==
    {f \in RecordFields : windows'[i][f] /= windows[i][f]}
    \cup (IF size'[windows[i].size] /= size[windows[i].size]
          THEN {"size"} ELSE {})
    \cup (IF need_frame_refresh'[windows[i].need_frame_refresh]
                /= need_frame_refresh[windows[i].need_frame_refresh]
          THEN {"need_frame_refresh"} ELSE {})

\* a notification changes at most the fields `allowed` of the records in
\* `hit` and nothing of any other record
OnlyFields(hit, allowed) ==
    /\ Len(windows') = Len(windows)
    /\ \A j \in 1 .. Len(windows) :
            Changed(j) \subseteq (IF j \in hit THEN allowed ELSE {})

FirstMatch(h) == {Match(windows, handle[h].surface)} \ {0}
AllMatches(h) == {j \in 1 .. Len(windows) : windows[j].surface = handle[h].surface}

\* what Refresh, Close and a DPI change do to the store
OtherNotifications ==
    /\ \A h \in Handles :
            Refresh(h) =>
                /\ OnlyFields(FirstMatch(h), {"need_frame_refresh"})
                /\ \A i \in FirstMatch(h) :
                        need_frame_refresh'[windows[i].need_frame_refresh]
    /\ \A h \in Handles :
            Close(h) =>
                /\ OnlyFields(FirstMatch(h), {"closed"})
                /\ \A i \in FirstMatch(h) : windows'[i].closed
    /\ \A h \in {1} :
            (Enter(h, 1) \/ Leave(h, 1)) =>
                /\ OnlyFields(AllMatches(h), {"new_dpi"})
                /\ IsSome(last'.ret) =>
                        \A i \in AllMatches(h) :
                            windows'[i].new_dpi =
                                (IF version >= DpiAwareVersion
                                 THEN last'.ret ELSE windows[i].new_dpi)

\* C16 as stated: every notification changes exactly one field of the record
\* it finds: a resize the pending size only.
C16_ExactlyOneField ==
    [][ /\ \A h \in Handles, ns \in {None} \cup {Some(sz) : sz \in Sizes} :
                Configure(h, ns) =>
                    /\ OnlyFields(FirstMatch(h), {"newsize"})
                    /\ \A i \in FirstMatch(h) : windows'[i].newsize = ns
        /\ OtherNotifications
    ]_vars

\* C16: every notification finds its record by the surface and changes no
\* other record; Configure stores the new pending size (None included) and
\* sets the needs-redraw and needs-frame-refresh flags of the first matching
\* record, Close sets only its closed flag, Refresh only its
\* needs-frame-refresh flag, and a DPI change sets only the pending DPI, of
\* every record of the surface.
C16_NotificationFields ==
    [][ /\ \A h \in Handles, ns \in {None} \cup {Some(sz) : sz \in Sizes} :
                Configure(h, ns) =>
                    /\ OnlyFields(FirstMatch(h),
                                  {"newsize", "need_refresh", "need_frame_refresh"})
                    /\ \A i \in FirstMatch(h) :
                            /\ windows'[i].newsize = ns
                            /\ windows'[i].need_refresh
                            /\ need_frame_refresh'[windows[i].need_frame_refresh]
        /\ OtherNotifications
    ]_vars

\* C16 witness: a surface has two records; the first holds a pending size, the
\* redraw flag and a close request, both hold the same pending DPI
C16_Witness ==
    /\ Len(windows) = 2
    /\ windows[1].surface = windows[2].surface
    /\ IsSome(windows[1].newsize)
    /\ windows[1].need_refresh
    /\ windows[1].closed
    /\ ~windows[2].closed
    /\ IsSome(windows[1].new_dpi)
    /\ windows[2].new_dpi = windows[1].new_dpi


\* the k-th smallest element of a set of indices
Kth(P, k) == CHOOSE i \in P : Cardinality({j \in P : j <= i}) = k

\* C19: handles are numbered in registration order, and the store always holds
\* its records in that order (a subsequence of the registrations); for_each
\* calls the visitor once per record in store order, and cleanup returns the
\* ids of the records it removes in store order.
C19_InsertionOrder ==
    /\ [](\A i, j \in DOMAIN windows : i < j => windows[i].frame < windows[j].frame)
    /\ [][ /\ last'.op = "for_each" =>
                /\ Len(last'.ret) = Len(windows)
                /\ \A i \in DOMAIN windows :
                        last'.ret[i].wid = make_wid(windows[i].surface)
           /\ last'.op = "cleanup" =>
                LET P == {i \in DOMAIN windows : Marked(windows[i])}
                IN /\ Len(last'.ret) = Cardinality(P)
                   /\ \A k \in 1 .. Cardinality(P) :
                        last'.ret[k] = make_wid(windows[Kth(P, k)].surface)
       ]_vars

\* C19 witness: a drain pass has visited two windows of different surfaces,
\* the one registered first before the other
C19_Witness ==
    /\ last.op = "for_each"
    /\ Len(last.ret) = 2
    /\ last.ret[1].wid /= last.ret[2].wid
    /\ windows[1].frame = 1
    /\ windows[2].frame = 2


\* the fixed field order of the events of one window
FieldOrder == <<"Resized", "HiDpiFactorChanged", "Refresh", "CloseRequested">>
FieldRank(e) == CHOOSE k \in DOMAIN FieldOrder : FieldOrder[k] = e

\* C20: the events a drain pass sends for one window are one event for each
\* of pending resize, pending DPI, needs-redraw and closed that the snapshot
\* holds, in the order resize, dpi-change, redraw-needed, closed.
C20_FieldOrder ==
    last.op = "for_each" =>
        \A i \in DOMAIN last.ret :
            LET v == last.ret[i]
                ev == visitor(v)
            IN /\ \A a, b \in DOMAIN ev : a < b => FieldRank(ev[a]) < FieldRank(ev[b])
               /\ ("Resized" \in Range(ev)) <=> IsSome(v.newsize)
               /\ ("HiDpiFactorChanged" \in Range(ev)) <=> IsSome(v.new_dpi)
               /\ ("Refresh" \in Range(ev)) <=> v.need_refresh
               /\ ("CloseRequested" \in Range(ev)) <=> v.closed

\* C20 witness: a drain pass found a close request, a DPI change and a resize
\* on the window and sent all four events
C20_Witness ==
    /\ last.op = "for_each"
    /\ Len(last.ret) = 1
    /\ visitor(last.ret[1]) = FieldOrder


\* C17 as stated: while the visitor of a drain pass runs, the loop thread
\* holds no lock: not the store mutex, not a size, frame or
\* needs-frame-refresh cell.
C17_NoLockAcrossVisitor ==
    fe_pc = "visiting" => \A l \in Locks : held[l] /= "loop"

\* the calls of the handle that hold the guard of its size
SizeSections == GetSize \cup {"set_inner_size_size"}

\* C18 as stated: the size changes only while the visitor of a drain pass
\* runs.
C18_SizeWrittenOnlyInDrain ==
    [][\A h \in Handles : size'[h] /= size[h] => fe_pc = "visiting"]_vars

\* C18: every read and write of the size is made by a thread that holds the
\* lock of the size cell: the drain pass holds it while the visitor runs and
\* writes, the handle holds it in get_inner_size, get_outer_size and
\* get_raw_parts for its read and in set_inner_size for its write, which can
\* happen outside a drain pass; so the visitor and a call of the handle are
\* never in the size at the same time.
C18_SizeUnderLock ==
    /\ [](app_pc \in SizeSections => held[SizeLock(1)] = "app")
    /\ [](fe_pc = "visiting" => held[SizeLock(windows[fe_i].size)] = "loop")
    /\ [][ /\ \A h \in Handles :
                size'[h] /= size[h] =>
                    \/ fe_pc = "visiting" /\ windows[fe_i].size = h
                    \/ app_pc = "set_inner_size_size" /\ h = 1
           /\ last'.op \in GetSize => app_pc = last'.op
       ]_vars

\* C18 witness: set_inner_size holds the size lock for its write while a drain
\* pass that has a pending resize for the same window waits for the window
C18_Witness ==
    /\ app_pc = "set_inner_size_size"
    /\ fe_pc = "next"
    /\ fe_i = 1
    /\ IsSome(windows[1].newsize)
    /\ size[1] /= Unwrap(windows[1].newsize)


\* the Window that registered the record still owns its fields (drop() has
\* not finished), and it was made by Window::new
FrameExists(w) ==
    /\ handle[w.frame].st /= "dropped"
    /\ handle[w.frame].kill_switch

\* C21: a drain pass calls the visitor once for every record of the store,
\* with the record's surface id and pending fields, and with a frame exactly
\* when the frame object of the window still exists: no frame for a window
\* whose handle was dropped or that was made from raw parts.
C21_VisitEveryRecord ==
    [][ last'.op = "for_each" =>
            /\ Len(last'.ret) = Len(windows)
            /\ \A i \in DOMAIN windows :
                    /\ last'.ret[i].wid = make_wid(windows[i].surface)
                    /\ last'.ret[i].newsize = windows[i].newsize
                    /\ last'.ret[i].closed = windows[i].closed
                    /\ last'.ret[i].frame = FrameExists(windows[i])
    ]_vars

\* C21 witness: a drain pass visited a window with its frame and a window
\* whose handle was dropped and whose record cleanup has not removed yet
C21_Witness ==
    /\ last.op = "for_each"
    /\ Len(last.ret) = 2
    /\ Len(windows) = 2
    /\ last.ret[1].frame
    /\ ~last.ret[2].frame
    /\ handle[windows[2].frame].st = "dropped"
    /\ handle[windows[2].frame].kill_switch


\* C22 as stated: new_seat never fails, gives the seat to the frame of every
\* record whose frame reference upgrades, and leaves the records unchanged.
C22_NewSeatSkips ==
    [][ last'.op = "new_seat" =>
            /\ ~last'.ret[2].panicked
            /\ Range(last'.ret[2].frames) =
                    {windows[i].frame : i \in {j \in DOMAIN windows :
                                                    Upgrade(windows[j].frame)}}
            /\ windows' = windows
    ]_vars


\* C23: find_wid(surface) returns Some(id of the surface) when the store holds
\* a record of the surface, whether or not its handle was dropped, and None
\* when it holds none (never registered, or removed by cleanup).
C23_FindWid ==
    [][ last'.op = "find_wid" =>
            LET surface == last'.ret[1]
            IN last'.ret[2] =
                IF \E i \in DOMAIN windows : windows[i].surface = surface
                THEN Some(make_wid(surface))
                ELSE None
    ]_vars

\* C23 witness: find_wid has found the record of a window whose handle was
\* dropped and that cleanup has not removed
C23_Witness ==
    /\ last.op = "find_wid"
    /\ IsSome(last.ret[2])
    /\ \E h \in Handles :
            /\ handle[h].st = "dropped"
            /\ handle[h].kill_switch
            /\ handle[h].surface = last.ret[1]
            /\ RecordOf(windows, h) /= {}
            /\ \A i \in DOMAIN windows : windows[i].surface = last.ret[1] => windows[i].frame = h


\* C24: the needs-frame-refresh flag is cleared by nothing but the step in
\* which a drain pass takes it, that step takes the value the flag has and
\* leaves it false, and the visitor is given the value taken: a request made
\* by set_decorations, Refresh or Configure stays in the flag until the next
\* pass takes it, and is reported by that pass and by no later one.
C24_RefreshTakenOnce ==
    [][ /\ \A h \in Handles :
                (need_frame_refresh[h] /\ ~need_frame_refresh'[h]) =>
                    /\ fe_pc = "size" /\ fe_pc' = "visiting"
                    /\ windows[fe_i].need_frame_refresh = h
                    /\ fe_taken'
        /\ (fe_pc = "size" /\ fe_pc' = "visiting") =>
                /\ fe_taken' = need_frame_refresh[windows[fe_i].need_frame_refresh]
                /\ ~need_frame_refresh'[windows[fe_i].need_frame_refresh]
        /\ last'.op = "visit" => last'.ret.need_frame_refresh = fe_taken
    ]_vars

\* C24 witness: a visit has reported a frame-refresh request without a
\* redraw (a request not made by Configure), and the flag is false again
C24_Witness ==
    /\ last.op = "visit"
    /\ last.ret.need_frame_refresh
    /\ ~last.ret.need_refresh
    /\ ~need_frame_refresh[1]
    /\ app_pc = "idle"


\* C25: for a surface of version 3 or more, the DPI the record holds (the
\* pending one if there is one, else the current one) is the aggregate factor
\* of the window; right after a drain pass the current DPI is the aggregate,
\* and a pending DPI the pass reported is that value.
C25_DpiFollowsAggregate ==
    version >= DpiAwareVersion =>
        /\ \A i \in DOMAIN windows :
                (IF IsSome(windows[i].new_dpi) THEN Unwrap(windows[i].new_dpi)
                 ELSE windows[i].current_dpi) = Aggregate(monitors[1])
        /\ last.op = "for_each" =>
                \A i \in DOMAIN windows :
                    /\ windows[i].current_dpi = hidpi_factor(1)
                    /\ IsSome(last.ret[i].new_dpi) =>
                            Unwrap(last.ret[i].new_dpi) = hidpi_factor(1)

\* C25 witness: the window entered an output of factor 2 and another of
\* factor 1, left the first, and the drain pass that followed reported the
\* pending DPI 1 it found
C25_Witness ==
    /\ version >= DpiAwareVersion
    /\ last.op = "for_each"
    /\ last.ret[1].new_dpi = Some(1)
    /\ Len(monitors[1]) = 1
    /\ \E o \in Outputs : factor[o] > 1


\* C26: a Configure replaces the pending size by the one it carries (by none
\* when it carries none) and sets needs-redraw; nothing but a Configure and a
\* drain pass changes the two; a drain pass reports them as it finds them and
\* clears them. So a pass reports the size of the last Configure since the
\* pass before it, and needs-redraw after every Configure.
C26_LastConfigureWins ==
    [][ /\ \A ns \in {None} \cup {Some(sz) : sz \in Sizes} :
                Configure(1, ns) =>
                    /\ windows'[1].newsize = ns
                    /\ windows'[1].need_refresh
        /\ last'.op = "for_each" =>
                /\ last'.ret[1].newsize = windows[1].newsize
                /\ last'.ret[1].need_refresh = windows[1].need_refresh
                /\ windows'[1].newsize = None
                /\ ~windows'[1].need_refresh
        /\ (\/ windows'[1].newsize /= windows[1].newsize
            \/ windows'[1].need_refresh /= windows[1].need_refresh) =>
                \/ last'.op = "for_each"
                \/ \E ns \in {None} \cup {Some(sz) : sz \in Sizes} : Configure(1, ns)
    ]_vars

\* C26 witness: a drain pass reported needs-redraw and no pending size: the
\* last Configure before it carried no size
C26_Witness ==
    /\ last.op = "for_each"
    /\ last.ret[1].newsize = None
    /\ last.ret[1].need_refresh


\* a step is a protocol notification for the surface of handle h
Notification(h) ==
    \/ \E ns \in {None} \cup {Some(sz) : sz \in Sizes} : Configure(h, ns)
    \/ Refresh(h)
    \/ Close(h)
    \/ \E o \in Outputs : Enter(h, o) \/ Leave(h, o)

\* C27: a notification for a surface changes only records of that surface;
\* when the store holds no record of the surface it leaves the store and the
\* cells of its records as they are, and the closure still runs to its end
\* (a further notification can be delivered).
C27_OnlyMatchingRecord ==
    [][ \A h \in Handles :
            /\ Notification(h) =>
                    /\ OnlyFields(AllMatches(h), RecordFields \cup {"size", "need_frame_refresh"})
                    /\ AllMatches(h) = {} =>
                            UNCHANGED <<windows, size, need_frame_refresh>>
            /\ (HasFrame(h) /\ AllMatches(h) = {}) =>
                    /\ ENABLED Refresh(h)
                    /\ ENABLED Close(h)
                    /\ ENABLED Configure(h, None)
    ]_vars

\* C27 witness: both windows are being dropped, cleanup has emptied the store,
\* and a notification of one of the frames was delivered after it
C27_Witness ==
    /\ windows = <<>>
    /\ \A h \in {1, 2} : handle[h].st = "dropping" /\ HasFrame(h)
    /\ last = NoOp


\* the place of a mutex in the order store, frame, size, frame-refresh
LockRank(l) ==
    IF l = StoreLock THEN 0
    ELSE IF l[1] = "frame" THEN 1
    ELSE IF l[1] = "size" THEN 2
    ELSE 3

\* C28: every thread locks a mutex only while the mutexes it holds come
\* before it in the order store, frame, size, frame-refresh; and under fair
\* scheduling a drain pass that has begun returns, a call of the handle that
\* has begun returns, and a drop that has begun ends.
C28_NoDeadlock ==
    /\ [][ \A l \in Locks :
                (held[l] = "free" /\ held'[l] /= "free") =>
                    \A m \in Locks :
                        held[m] = held'[l] => LockRank(m) < LockRank(l) ]_vars
    /\ (fe_pc /= "idle") ~> (fe_pc = "idle")
    /\ (app_pc /= "idle") ~> (app_pc = "idle")
    /\ (handle[1].st = "dropping") ~> (handle[1].st = "dropped")

\* C28 witness: set_inner_size holds the frame and waits for nothing the loop
\* holds, while the drain pass holds the store and waits for that frame
C28_Witness ==
    /\ app_pc = "set_inner_size_frame"
    /\ held[FrameLock(1)] = "app"
    /\ fe_pc = "next"
    /\ fe_i = 1
    /\ held[StoreLock] = "loop"
    /\ ~ENABLED FeFrameLock


\* the store still holds the record of the window of handle h
InStore(h) == \E i \in DOMAIN windows : windows[i].kill_switch = Some(h)

RECURSIVE Others(_, _)
Others(ms, o) ==
    IF ms = <<>> THEN <<>>
    ELSE IF Head(ms) = o THEN Others(Tail(ms), o)
    ELSE <<Head(ms)>> \o Others(Tail(ms), o)

\* C30: an enter notification appends its output to the monitor list even
\* when the list already holds it; a leave notification for an output leaves
\* no entry of that output in the list, and the entries of the other outputs
\* stay, as many as before and in the order they had.
C30_LeaveRemovesAll ==
    [][ \A o \in Outputs :
            /\ Enter(1, o) =>
                    monitors'[1] = Append(monitors[1], o)
            /\ Leave(1, o) =>
                    /\ \A i \in DOMAIN monitors'[1] : monitors'[1][i] /= o
                    /\ monitors'[1] = Others(monitors[1], o)
    ]_vars

\* C30 witness: a second enter notification for the same output has put the
\* output in the list twice
C30_Witness ==
    /\ last.op = "add_output"
    /\ Len(monitors[1]) >= 2
    /\ \E i, j \in DOMAIN monitors[1] : i < j /\ monitors[1][i] = monitors[1][j]

====
